---- MODULE Spec2Model ----
(***************************************************************************)
(* A model of bit_array_c (bitarray.h, bitarray.cpp): a vector of bits     *)
(* packed MSB-first into unsigned chars, with its mutating operators.      *)
(* m_Array is a sequence of bytes; the C++ index i is position i + 1.      *)
(***************************************************************************)
EXTENDS Integers, Sequences, FiniteSets, TLC

VARIABLES m_NumBits, m_Array, fault, op, arg, pre, trace, other, result

vars == <<m_NumBits, m_Array, fault, op, arg, pre, trace, other, result>>

(* ------------------------------ bounds -------------------------------- *)

\* longest vector of the specification with every mutator
MaxBits == 10
\* longest vector of the single-bit specification
MaxBitBits == 9
\* largest bit index handed to SetBit, ClearBit and the index proxy
MaxIndex == 16
\* longest vector of the increment/decrement specification
MaxArithBits == 16
\* longest vector of the shift specification
MaxShiftBits == 17
\* longest vector the shift specification starts from with any content
MaxDenseBits == 10
\* largest shift count
MaxShift == 18
\* longest vector of the index proxy specification
MaxProxyBits == 8
\* longest vector of the specification of two vectors
MaxPairBits == 10
\* longest vector that specification starts from with any content
MaxDensePairBits == 4

(* --------------------------- C arithmetic ----------------------------- *)

CHAR_BIT == 8

UCHAR_MAX == 255

\* number of values of an unsigned char
UCharRange == UCHAR_MAX + 1

\* int division truncates toward zero
IntDiv(a, b) == IF a >= 0 THEN a \div b ELSE -((-a) \div b)

\* conversion of an int result to unsigned char
ToUChar(x) == x % UCharRange

RECURSIVE AndBits(_, _, _)
AndBits(a, b, k) ==
    IF k = CHAR_BIT THEN 0
    ELSE (IF a % 2 = 1 /\ b % 2 = 1 THEN 1 ELSE 0)
         + 2 * AndBits(a \div 2, b \div 2, k + 1)

RECURSIVE OrBits(_, _, _)
OrBits(a, b, k) ==
    IF k = CHAR_BIT THEN 0
    ELSE (IF a % 2 = 1 \/ b % 2 = 1 THEN 1 ELSE 0)
         + 2 * OrBits(a \div 2, b \div 2, k + 1)

RECURSIVE XorBits(_, _, _)
XorBits(a, b, k) ==
    IF k = CHAR_BIT THEN 0
    ELSE (IF a % 2 # b % 2 THEN 1 ELSE 0)
         + 2 * XorBits(a \div 2, b \div 2, k + 1)

\* a & b, a | b, a ^ b and ~a on unsigned chars
ByteAnd(a, b) == AndBits(a, b, 0)
ByteOr(a, b) == OrBits(a, b, 0)
ByteXor(a, b) == XorBits(a, b, 0)
ByteNot(a) == UCHAR_MAX - a

(* ------------------------------ macros -------------------------------- *)

BIT_CHAR(bit) == bit \div CHAR_BIT

\* BIT_IN_CHAR counting from the least significant bit
BitInCharLsb(bit) == 2 ^ (bit % CHAR_BIT)

BIT_IN_CHAR(bit) == 2 ^ (CHAR_BIT - 1 - (bit % CHAR_BIT))

BITS_TO_CHARS(bits) == IntDiv(bits - 1, CHAR_BIT) + 1

MS_BIT == 2 ^ (CHAR_BIT - 1)

\* BIT_CHAR(m_NumBits - 1): m_NumBits is an unsigned int of 32 bits, so for
\* m_NumBits = 0 the difference wraps to 2^32 - 1, whose character is 2^29 - 1
LastChar(numBits) ==
    IF numBits >= 1 THEN BIT_CHAR(numBits - 1) ELSE (2 ^ 29) - 1

(* ------------------------- vector accesses ---------------------------- *)

\* m_Array[i] read and m_Array[i] = v, for i inside the vector
At(arr, i) == arr[i + 1]
Put(arr, i, v) == [arr EXCEPT ![i + 1] = v]

\* m_Array.assign(m_Array.size(), v)
Fill(arr, v) == [i \in 1..Len(arr) |-> v]

\* UCHAR_MAX << (CHAR_BIT - bits), stored in an unsigned char
SpareMask(bits) == ToUChar(UCHAR_MAX * 2 ^ (CHAR_BIT - bits))

(* ---------------------------- constructor ----------------------------- *)

RECURSIVE PushZeros(_, _, _)
PushZeros(arr, i, n) ==
    IF i < n THEN PushZeros(Append(arr, 0), i + 1, n) ELSE arr

\* bit_array_c(int numBits)
NewArray(numBits) == PushZeros(<< >>, 0, BITS_TO_CHARS(numBits))

(* ------------------------ set/clear functions ------------------------- *)

SetAll(arr, numBits) ==
    LET all == Fill(arr, UCHAR_MAX)
        bits == numBits % CHAR_BIT
    IN  IF bits # 0
        THEN Put(all, LastChar(numBits), SpareMask(bits))
        ELSE all

ClearAll(arr) == Fill(arr, 0)

\* SetBit with the index checked against the storage instead of m_NumBits
SetBitInStorage(arr, numBits, bit) ==
    IF CHAR_BIT * Len(arr) <= bit THEN arr
    ELSE Put(arr, BIT_CHAR(bit), ByteOr(At(arr, BIT_CHAR(bit)), BIT_IN_CHAR(bit)))

SetBit(arr, numBits, bit) ==
    IF numBits <= bit THEN arr
    ELSE Put(arr, BIT_CHAR(bit), ByteOr(At(arr, BIT_CHAR(bit)), BIT_IN_CHAR(bit)))

ClearBit(arr, numBits, bit) ==
    IF numBits <= bit THEN arr
    ELSE LET mask == ByteNot(BIT_IN_CHAR(bit))
         IN  Put(arr, BIT_CHAR(bit), ByteAnd(At(arr, BIT_CHAR(bit)), mask))

\* operator[]
Get(arr, bit) == ByteAnd(At(arr, BIT_CHAR(bit)), BIT_IN_CHAR(bit)) # 0


(* -------------------------------- Dump -------------------------------- *)

HexDigits == <<"0", "1", "2", "3", "4", "5", "6", "7",
               "8", "9", "A", "B", "C", "D", "E", "F">>

\* operator<< of an int on a stream set to hex and uppercase: the digits of
\* the value, without leading zeros
RECURSIVE HexText(_)
HexText(v) ==
    IF v < Len(HexDigits) THEN <<HexDigits[v + 1]>>
    ELSE Append(HexText(v \div Len(HexDigits)), HexDigits[(v % Len(HexDigits)) + 1])

\* width(w) and fill('0'): the text is padded on the left up to w characters
RECURSIVE Filled(_, _)
Filled(text, w) == IF Len(text) < w THEN Filled(<<"0">> \o text, w) ELSE text

\* the remaining bytes, each with a leading space
RECURSIVE DumpLoop(_, _, _)
DumpLoop(arr, i, out) ==
    IF i < Len(arr)
    THEN DumpLoop(arr, i + 1, out \o <<" ">> \o Filled(HexText(At(arr, i)), 2))
    ELSE out

\* Dump writes m_Array[0] before any test of the size: on a vector without
\* units that read is outside the storage, and the run stops there or goes on
\* with the byte found
Dump(arr) ==
    IF Len(arr) = 0
    THEN {[out |-> << >>, fault |-> "abort"]}
         \cup {[out |-> Filled(HexText(b), 2), fault |-> "oob"] : b \in {0, UCHAR_MAX}}
    ELSE {[out |-> DumpLoop(arr, 1, Filled(HexText(At(arr, 0)), 2)), fault |-> "none"]}

(* ------------------- outcomes of an operator call --------------------- *)

\* A call runs on st = [arr, oob, at]: arr is the vector, oob says that a
\* unit outside the vector was accessed, at is the vector at the first such
\* access.  A store outside the vector does not land in the vector.
Start(arr) == [arr |-> arr, oob |-> FALSE, at |-> arr]

Outside(st) == IF st.oob THEN st ELSE [st EXCEPT !.oob = TRUE, !.at = st.arr]

\* m_Array[i] = v, for any i
Store(st, i, v) ==
    IF i < Len(st.arr) THEN [st EXCEPT !.arr = Put(st.arr, i, v)] ELSE Outside(st)

\* An access outside the vector is undefined: the run stops at the access,
\* or goes on with the memory next to the vector overwritten.
Outcomes(st) ==
    IF st.oob
    THEN {[arr |-> st.at, fault |-> "abort"], [arr |-> st.arr, fault |-> "oob"]}
    ELSE {[arr |-> st.arr, fault |-> "none"]}

(* ---------------------------- operator~= ------------------------------ *)

RECURSIVE NotLoop(_, _)
NotLoop(arr, i) ==
    IF i < Len(arr) THEN NotLoop(Put(arr, i, ByteNot(At(arr, i))), i + 1) ELSE arr

Not(arr, numBits) ==
    IF Len(arr) = 0 THEN arr
    ELSE LET flipped == NotLoop(arr, 0)
             bits == numBits % CHAR_BIT
             last == LastChar(numBits)
         IN  IF bits # 0
             THEN Put(flipped, last, ByteAnd(At(flipped, last), SpareMask(bits)))
             ELSE flipped

(* ----------------------- increment, decrement ------------------------- *)

\* maxValue and one of the last character
LastMax(numBits) ==
    IF numBits % CHAR_BIT # 0 THEN SpareMask(numBits % CHAR_BIT) ELSE UCHAR_MAX

\* one without the shift to the lowest used bit of the last character
LastOneLow(numBits) == 1

LastOne(numBits) ==
    IF numBits % CHAR_BIT # 0 THEN ToUChar(2 ^ (CHAR_BIT - (numBits % CHAR_BIT))) ELSE 1

RECURSIVE IncLoop(_, _, _, _)
IncLoop(arr, i, maxValue, one) ==
    IF i >= 0
    THEN IF At(arr, i) # maxValue
         THEN Put(arr, i, ToUChar(At(arr, i) + one))
         ELSE IncLoop(Put(arr, i, 0), i - 1, UCHAR_MAX, 1)
    ELSE arr

\* DecLoop borrowing also when the character equals one
RECURSIVE DecLoopStrict(_, _, _, _)
DecLoopStrict(arr, i, maxValue, one) ==
    IF i >= 0
    THEN IF At(arr, i) > one
         THEN Put(arr, i, ToUChar(At(arr, i) - one))
         ELSE DecLoopStrict(Put(arr, i, maxValue), i - 1, UCHAR_MAX, 1)
    ELSE arr

RECURSIVE DecLoop(_, _, _, _)
DecLoop(arr, i, maxValue, one) ==
    IF i >= 0
    THEN IF At(arr, i) >= one
         THEN Put(arr, i, ToUChar(At(arr, i) - one))
         ELSE DecLoop(Put(arr, i, maxValue), i - 1, UCHAR_MAX, 1)
    ELSE arr

\* The loop starts at BIT_CHAR(m_NumBits - 1).  When that is past the vector
\* the units read first are not the vector's: the run stops, or one of them
\* takes the increment, or all of them carry into the vector's last unit.
\* operator++ without its test for an array without storage
OperatorIncUnguarded(arr, numBits) ==
    LET first == LastChar(numBits)
    IN  IF first < Len(arr)
        THEN {[arr |-> IncLoop(arr, first, LastMax(numBits), LastOne(numBits)),
               fault |-> "none"]}
        ELSE {[arr |-> arr, fault |-> "abort"], [arr |-> arr, fault |-> "oob"]}

OperatorInc(arr, numBits) ==
    IF Len(arr) = 0 THEN {[arr |-> arr, fault |-> "none"]}
    ELSE LET first == LastChar(numBits)
         IN  IF first < Len(arr)
             THEN {[arr |-> IncLoop(arr, first, LastMax(numBits), LastOne(numBits)),
                    fault |-> "none"]}
             ELSE {[arr |-> arr, fault |-> "abort"],
                   [arr |-> arr, fault |-> "oob"],
                   [arr |-> IncLoop(arr, Len(arr) - 1, UCHAR_MAX, 1), fault |-> "oob"]}

OperatorDec(arr, numBits) ==
    IF Len(arr) = 0 THEN {[arr |-> arr, fault |-> "none"]}
    ELSE LET first == LastChar(numBits)
         IN  IF first < Len(arr)
             THEN {[arr |-> DecLoop(arr, first, LastMax(numBits), LastOne(numBits)),
                    fault |-> "none"]}
             ELSE {[arr |-> arr, fault |-> "abort"],
                   [arr |-> arr, fault |-> "oob"],
                   [arr |-> DecLoop(arr, Len(arr) - 1, UCHAR_MAX, 1), fault |-> "oob"]}

(* ---------------------------- operator<<= ----------------------------- *)

RECURSIVE ShlMove(_, _, _)
ShlMove(arr, chars, i) ==
    IF i + chars < Len(arr)
    THEN ShlMove(Put(arr, i, At(arr, i + chars)), chars, i + 1)
    ELSE arr

\* i is unsigned: when chars is more than i, i - chars wraps to a value near
\* 2^32, an index outside the vector
RECURSIVE ShlZero(_, _, _)
ShlZero(st, i, chars) ==
    IF chars > 0
    THEN ShlZero(IF chars <= i THEN Store(st, i - chars, 0) ELSE Outside(st),
                 i, chars - 1)
    ELSE st

\* ShlCarry without the bit carried across the byte bound
RECURSIVE ShlCarryDrop(_, _, _)
ShlCarryDrop(arr, j, last) ==
    IF j < last
    THEN ShlCarryDrop(Put(arr, j, ToUChar(At(arr, j) * 2)), j + 1, last)
    ELSE arr

\* m_Array[j] <<= 1, then | 0x01 when m_Array[j + 1] has its top bit set
\* (unit j + 1 is not the unit just doubled)
RECURSIVE ShlCarry(_, _, _)
ShlCarry(arr, j, last) ==
    IF j < last
    THEN IF ByteAnd(At(arr, j + 1), MS_BIT) # 0
         THEN ShlCarry(Put(arr, j, ByteOr(ToUChar(At(arr, j) * 2), 1)), j + 1, last)
         ELSE ShlCarry(Put(arr, j, ToUChar(At(arr, j) * 2)), j + 1, last)
    ELSE arr

RECURSIVE ShlBits(_, _, _, _)
ShlBits(arr, i, shifts, last) ==
    IF i < shifts
    THEN LET carried == ShlCarry(arr, 0, last)
         IN  ShlBits(Put(carried, last, ToUChar(At(carried, last) * 2)),
                     i + 1, shifts, last)
    ELSE arr

OperatorShl(arr, numBits, n) ==
    LET chars == n \div CHAR_BIT
        shifts == n % CHAR_BIT
    IN  IF shifts >= numBits THEN {[arr |-> ClearAll(arr), fault |-> "none"]}
        ELSE LET jumped == IF chars > 0
                           THEN ShlZero(Start(ShlMove(arr, chars, 0)), Len(arr), chars)
                           ELSE Start(arr)
                 last == LastChar(numBits)
             IN  Outcomes([jumped EXCEPT !.arr = ShlBits(jumped.arr, 0, shifts, last)])

(* ---------------------------- operator>>= ----------------------------- *)

RECURSIVE ShrMove(_, _, _)
ShrMove(arr, chars, i) ==
    IF i - chars >= 0
    THEN ShrMove(Put(arr, i, At(arr, i - chars)), chars, i - 1)
    ELSE arr

RECURSIVE ShrZero(_, _)
ShrZero(st, chars) ==
    IF chars > 0 THEN ShrZero(Store(st, chars - 1, 0), chars - 1) ELSE st

\* m_Array[j] >>= 1, then | MS_BIT when m_Array[j - 1] has its low bit set
\* (unit j - 1 is not the unit just halved)
RECURSIVE ShrCarry(_, _)
ShrCarry(arr, j) ==
    IF j > 0
    THEN IF ByteAnd(At(arr, j - 1), 1) # 0
         THEN ShrCarry(Put(arr, j, ByteOr(At(arr, j) \div 2, MS_BIT)), j - 1)
         ELSE ShrCarry(Put(arr, j, At(arr, j) \div 2), j - 1)
    ELSE arr

RECURSIVE ShrBits(_, _, _, _)
ShrBits(arr, i, shifts, last) ==
    IF i < shifts
    THEN LET carried == ShrCarry(arr, last)
         IN  ShrBits(Put(carried, 0, At(carried, 0) \div 2), i + 1, shifts, last)
    ELSE arr

\* operator>>= without its closing mask
ShrMaskNone(arr, numBits) == arr

\* the closing mask of operator>>=
ShrMask(arr, numBits) ==
    LET i == numBits % CHAR_BIT
        last == LastChar(numBits)
    IN  IF i # 0 THEN Put(arr, last, ByteAnd(At(arr, last), SpareMask(i))) ELSE arr

OperatorShr(arr, numBits, n) ==
    LET chars == n \div CHAR_BIT
        shifts == n % CHAR_BIT
    IN  IF shifts >= numBits THEN {[arr |-> ClearAll(arr), fault |-> "none"]}
        ELSE LET last == LastChar(numBits)
                 jumped == IF chars > 0
                           THEN ShrZero(Start(ShrMove(arr, chars, last)), chars)
                           ELSE Start(arr)
             IN  Outcomes([jumped EXCEPT
                     !.arr = ShrMask(ShrBits(jumped.arr, 0, shifts, last), numBits)])

(* ------------------ operator&=, ^=, |= and operator= ------------------ *)

RECURSIVE AndLoop(_, _, _)
AndLoop(arr, src, i) ==
    IF i < Len(arr)
    THEN AndLoop(Put(arr, i, ByteAnd(At(arr, i), At(src, i))), src, i + 1)
    ELSE arr

RECURSIVE XorLoop(_, _, _)
XorLoop(arr, src, i) ==
    IF i < Len(arr)
    THEN XorLoop(Put(arr, i, ByteXor(At(arr, i), At(src, i))), src, i + 1)
    ELSE arr

RECURSIVE OrLoop(_, _, _)
OrLoop(arr, src, i) ==
    IF i < Len(arr)
    THEN OrLoop(Put(arr, i, ByteOr(At(arr, i), At(src, i))), src, i + 1)
    ELSE arr

\* a bit_array_c as a value: its m_NumBits and its m_Array; this is also what
\* bit_array_c(vect, numBits) builds, whatever vect holds
Vector(numBits, arr) == [bits |-> numBits, arr |-> arr]

\* operator&= taking the sizes of the storages for the sizes of the arrays
OperatorAndAssignByStorage(arr, numBits, src) ==
    IF Len(arr) # Len(src.arr) THEN arr ELSE AndLoop(arr, src.arr, 0)

\* src is a bit_array_c passed by value
OperatorAndAssign(arr, numBits, src) ==
    IF numBits # src.bits THEN arr ELSE AndLoop(arr, src.arr, 0)

OperatorXorAssign(arr, numBits, src) ==
    IF numBits # src.bits THEN arr ELSE XorLoop(arr, src.arr, 0)

OperatorOrAssign(arr, numBits, src) ==
    IF numBits # src.bits THEN arr ELSE OrLoop(arr, src.arr, 0)

\* The loops of &=, ^= and |= read src.m_Array[i] for every i of this
\* vector.  A src with fewer units is read outside its storage: the run stops
\* at the first such read, or goes on with whatever bytes lie there.
StrayBytes == {0, UCHAR_MAX}

Stretched(arr, n) == {arr \o tail : tail \in [1..(n - Len(arr)) -> StrayBytes]}

ShortRead(arr, src) == Len(src.arr) < Len(arr)

\* this vector when the run stops at the read of src.m_Array[Len(src.arr)]:
\* done are the units that src has
StoppedAt(arr, done) ==
    [arr |-> done \o SubSeq(arr, Len(done) + 1, Len(arr)),
     fault |-> "abort"]

AndAssignOutcomes(arr, numBits, src) ==
    IF numBits = src.bits /\ ShortRead(arr, src)
    THEN {StoppedAt(arr, AndLoop(SubSeq(arr, 1, Len(src.arr)), src.arr, 0))}
         \cup {[arr |-> AndLoop(arr, s, 0), fault |-> "oob"] :
                   s \in Stretched(src.arr, Len(arr))}
    ELSE {[arr |-> OperatorAndAssign(arr, numBits, src), fault |-> "none"]}

XorAssignOutcomes(arr, numBits, src) ==
    IF numBits = src.bits /\ ShortRead(arr, src)
    THEN {StoppedAt(arr, XorLoop(SubSeq(arr, 1, Len(src.arr)), src.arr, 0))}
         \cup {[arr |-> XorLoop(arr, s, 0), fault |-> "oob"] :
                   s \in Stretched(src.arr, Len(arr))}
    ELSE {[arr |-> OperatorXorAssign(arr, numBits, src), fault |-> "none"]}

OrAssignOutcomes(arr, numBits, src) ==
    IF numBits = src.bits /\ ShortRead(arr, src)
    THEN {StoppedAt(arr, OrLoop(SubSeq(arr, 1, Len(src.arr)), src.arr, 0))}
         \cup {[arr |-> OrLoop(arr, s, 0), fault |-> "oob"] :
                   s \in Stretched(src.arr, Len(arr))}
    ELSE {[arr |-> OperatorOrAssign(arr, numBits, src), fault |-> "none"]}

\* operator= without the test for an unallocated array
OperatorAssignUnguarded(arr, numBits, src) ==
    IF numBits # src.bits THEN arr ELSE src.arr

\* operator= without the test of the sizes
OperatorAssignAnySize(arr, numBits, src) ==
    IF Len(arr) = 0 \/ Len(src.arr) = 0 THEN arr ELSE src.arr

OperatorAssign(arr, numBits, src) ==
    IF numBits # src.bits THEN arr
    ELSE IF Len(arr) = 0 \/ Len(src.arr) = 0 THEN arr
    ELSE src.arr

(* ------------------- operators returning a value ---------------------- *)

\* bit_array_c result(this->m_Array, this->m_NumBits); result op= other;
\* return result: self is this->m_Array after the call, arr is result.m_Array
ByValue(arr, outs) ==
    {[self |-> arr, arr |-> out.arr, fault |-> out.fault] : out \in outs}

\* operator~ negating this vector itself and returning it
OperatorNotInPlace(arr, numBits) ==
    {[self |-> Not(arr, numBits), arr |-> Not(arr, numBits), fault |-> "none"]}

OperatorNot(arr, numBits) ==
    ByValue(arr, {[arr |-> Not(arr, numBits), fault |-> "none"]})

OperatorAnd(arr, numBits, src) == ByValue(arr, AndAssignOutcomes(arr, numBits, src))

OperatorXor(arr, numBits, src) == ByValue(arr, XorAssignOutcomes(arr, numBits, src))

\* operator| building its result from the operand instead of this vector
OperatorOrFromOther(arr, numBits, src) ==
    ByValue(arr, OrAssignOutcomes(src.arr, src.bits, Vector(numBits, arr)))

OperatorOr(arr, numBits, src) == ByValue(arr, OrAssignOutcomes(arr, numBits, src))

(* --------------------------- comparisons ------------------------------ *)

\* operator== of std::vector: the same size and the same elements
VecEq(a, b) == Len(a) = Len(b) /\ \A i \in 0..(Len(a) - 1) : At(a, i) = At(b, i)

\* VecLess deciding on the last unit instead of the first that differs
RECURSIVE VecLessFromEnd(_, _, _)
VecLessFromEnd(a, b, i) ==
    IF i >= Len(b) THEN FALSE
    ELSE IF i >= Len(a) THEN TRUE
    ELSE IF i = Len(a) - 1 /\ i = Len(b) - 1 THEN At(a, i) < At(b, i)
    ELSE VecLessFromEnd(a, b, i + 1)

\* operator< of std::vector, std::lexicographical_compare from unit i on
RECURSIVE VecLess(_, _, _)
VecLess(a, b, i) ==
    IF i >= Len(b) THEN FALSE
    ELSE IF i >= Len(a) THEN TRUE
    ELSE IF At(a, i) < At(b, i) THEN TRUE
    ELSE IF At(b, i) < At(a, i) THEN FALSE
    ELSE VecLess(a, b, i + 1)

OperatorEq(arr, numBits, src) ==
    IF numBits # src.bits THEN FALSE ELSE VecEq(arr, src.arr)

\* operator!= with the early return of operator==
OperatorNeFalseOnSizes(arr, numBits, src) ==
    IF numBits # src.bits THEN FALSE ELSE ~VecEq(arr, src.arr)

OperatorNe(arr, numBits, src) ==
    IF numBits # src.bits THEN TRUE ELSE ~VecEq(arr, src.arr)

OperatorLt(arr, numBits, src) ==
    IF numBits # src.bits THEN FALSE ELSE VecLess(arr, src.arr, 0)

OperatorLe(arr, numBits, src) ==
    IF numBits # src.bits THEN FALSE ELSE ~VecLess(src.arr, arr, 0)

OperatorGt(arr, numBits, src) ==
    IF numBits # src.bits THEN FALSE ELSE VecLess(src.arr, arr, 0)

OperatorGe(arr, numBits, src) ==
    IF numBits # src.bits THEN FALSE ELSE ~VecLess(arr, src.arr, 0)

(* ------------------------- bit_array_index_c -------------------------- *)

\* operator=(bool) calling SetBit for false and ClearBit for true
IndexAssignSwapped(arr, numBits, index, src) ==
    IF numBits <= index THEN arr
    ELSE IF src THEN ClearBit(arr, numBits, index)
    ELSE SetBit(arr, numBits, index)

\* operator() captures the vector and the index; operator=(bool) then
\* checks the index against Size() and calls SetBit or ClearBit
IndexAssign(arr, numBits, index, src) ==
    IF numBits <= index THEN arr
    ELSE IF src THEN SetBit(arr, numBits, index)
    ELSE ClearBit(arr, numBits, index)

(* ------------------------------ inputs -------------------------------- *)

Indices == 0..MaxIndex

ShiftCounts == 0..MaxShift

\* the right-hand vectors: built by the constructor and one call
Built(n) ==
    {NewArray(n), SetAll(NewArray(n), n), SetBit(NewArray(n), n, 0),
     Not(SetBit(NewArray(n), n, 0), n)}

\* one operand length equal to the vector's and one that differs
OperandLengths == {m_NumBits, (m_NumBits + 1) % (MaxBits + 1)}

Operands == UNION {{[bits |-> n, arr |-> a] : a \in Built(n)} : n \in OperandLengths}

(* --------------------------- state machine ---------------------------- *)

\* op, arg and pre record the last call, its argument and the vector before
\* it; they are kept only when trace is set
Hist(o, a) ==
    IF trace THEN op' = o /\ arg' = a /\ pre' = m_Array
    ELSE UNCHANGED <<op, arg, pre>>

Running == fault # "abort"

\* what a call returns: a bit_array_c for the operators that build one, a
\* bool for the comparisons, and out is what Dump wrote to its stream, one
\* character per element; a void call that writes nothing returns NoResult
NoResult == [bits |-> 0, arr |-> << >>, flag |-> FALSE, out |-> << >>]

Return(o, a, arr) ==
    /\ Running
    /\ m_Array' = arr
    /\ fault' = "none"
    /\ Hist(o, a)
    /\ result' = NoResult
    /\ UNCHANGED <<m_NumBits, trace, other>>

ReturnAny(o, a, outs) ==
    /\ Running
    /\ \E out \in outs : m_Array' = out.arr /\ fault' = out.fault
    /\ Hist(o, a)
    /\ result' = NoResult
    /\ UNCHANGED <<m_NumBits, trace, other>>

CallSetAll == Return("SetAll", 0, SetAll(m_Array, m_NumBits))

CallClearAll == Return("ClearAll", 0, ClearAll(m_Array))

CallSetBit(bit) == Return("SetBit", bit, SetBit(m_Array, m_NumBits, bit))

CallClearBit(bit) == Return("ClearBit", bit, ClearBit(m_Array, m_NumBits, bit))

CallIndexAssign(bit, src) ==
    Return(IF src THEN "IndexTrue" ELSE "IndexFalse", bit,
           IndexAssign(m_Array, m_NumBits, bit, src))

CallNot == Return("Not", 0, Not(m_Array, m_NumBits))

CallInc == ReturnAny("Inc", 0, OperatorInc(m_Array, m_NumBits))

CallDec == ReturnAny("Dec", 0, OperatorDec(m_Array, m_NumBits))

CallShl(n) == ReturnAny("Shl", n, OperatorShl(m_Array, m_NumBits, n))

CallShr(n) == ReturnAny("Shr", n, OperatorShr(m_Array, m_NumBits, n))

CallAndAssign(src) == ReturnAny("And", src.bits, AndAssignOutcomes(m_Array, m_NumBits, src))

CallXorAssign(src) == ReturnAny("Xor", src.bits, XorAssignOutcomes(m_Array, m_NumBits, src))

CallOrAssign(src) == ReturnAny("Or", src.bits, OrAssignOutcomes(m_Array, m_NumBits, src))

CallAssign(src) == Return("Assign", src.bits, OperatorAssign(m_Array, m_NumBits, src))

\* a call of an operator that returns a bit_array_c
ReturnVector(o, a, outs) ==
    /\ Running
    /\ \E out \in outs :
           /\ m_Array' = out.self
           /\ fault' = out.fault
           /\ result' = [NoResult EXCEPT !.bits = m_NumBits, !.arr = out.arr]
    /\ Hist(o, a)
    /\ UNCHANGED <<m_NumBits, trace, other>>

\* a call of a comparison: it has only this and its copy of the operand
ReturnBool(o, a, flag) ==
    /\ Running
    /\ fault' = "none"
    /\ result' = [NoResult EXCEPT !.flag = flag]
    /\ Hist(o, a)
    /\ UNCHANGED <<m_NumBits, m_Array, trace, other>>

\* a call of Dump: the text goes to the stream
CallDump ==
    /\ Running
    /\ \E d \in Dump(m_Array) :
           /\ fault' = d.fault
           /\ result' = [NoResult EXCEPT !.out = d.out]
    /\ Hist("Dump", 0)
    /\ UNCHANGED <<m_NumBits, m_Array, trace, other>>

CallComplement == ReturnVector("~", 0, OperatorNot(m_Array, m_NumBits))

CallAnd(src) == ReturnVector("&", src.bits, OperatorAnd(m_Array, m_NumBits, src))

CallXor(src) == ReturnVector("^", src.bits, OperatorXor(m_Array, m_NumBits, src))

CallOr(src) == ReturnVector("|", src.bits, OperatorOr(m_Array, m_NumBits, src))

CallEq(src) == ReturnBool("==", src.bits, OperatorEq(m_Array, m_NumBits, src))

CallNe(src) == ReturnBool("!=", src.bits, OperatorNe(m_Array, m_NumBits, src))

CallLt(src) == ReturnBool("<", src.bits, OperatorLt(m_Array, m_NumBits, src))

CallLe(src) == ReturnBool("<=", src.bits, OperatorLe(m_Array, m_NumBits, src))

CallGt(src) == ReturnBool(">", src.bits, OperatorGt(m_Array, m_NumBits, src))

CallGe(src) == ReturnBool(">=", src.bits, OperatorGe(m_Array, m_NumBits, src))

\* the state after bit_array_c(numBits)
Constructed(numBits, t) ==
    /\ m_NumBits = numBits
    /\ m_Array = NewArray(numBits)
    /\ fault = "none"
    /\ op = "new"
    /\ arg = 0
    /\ pre = << >>
    /\ trace = t
    /\ other = Vector(0, << >>)
    /\ result = NoResult

(* every mutator, on vectors of 0..MaxBits bits *)

Init == \E numBits \in 0..MaxBits : Constructed(numBits, FALSE)

Next ==
    \/ CallSetAll
    \/ CallClearAll
    \/ \E bit \in Indices : CallSetBit(bit)
    \/ \E bit \in Indices : CallClearBit(bit)
    \/ \E bit \in Indices, src \in BOOLEAN : CallIndexAssign(bit, src)
    \/ CallNot
    \/ CallInc
    \/ CallDec
    \/ \E n \in ShiftCounts : CallShl(n)
    \/ \E n \in ShiftCounts : CallShr(n)
    \/ \E src \in Operands : CallAndAssign(src)
    \/ \E src \in Operands : CallXorAssign(src)
    \/ \E src \in Operands : CallOrAssign(src)
    \/ \E src \in Operands : CallAssign(src)

Spec == Init /\ [][Next]_vars

(* the set/clear functions, with the call recorded *)

InitBit == \E numBits \in 0..MaxBitBits : Constructed(numBits, TRUE)

NextBit ==
    \/ CallSetAll
    \/ CallClearAll
    \/ \E bit \in Indices : CallSetBit(bit)
    \/ \E bit \in Indices : CallClearBit(bit)

SpecBit == InitBit /\ [][NextBit]_vars

(* assignments through the index proxy, with the call recorded *)

InitIndex == \E numBits \in 0..MaxProxyBits : Constructed(numBits, TRUE)

NextIndex == \E bit \in Indices, src \in BOOLEAN : CallIndexAssign(bit, src)

SpecIndex == InitIndex /\ [][NextIndex]_vars

(* increment and decrement, with the call recorded *)

InitArith == \E numBits \in 1..MaxArithBits : Constructed(numBits, TRUE)

NextArith == CallInc \/ CallDec

SpecArith == InitArith /\ [][NextArith]_vars

(* one recorded shift of a vector filled by single-bit calls *)

RECURSIVE SetBits(_, _, _)
SetBits(arr, numBits, bits) ==
    IF bits = {} THEN arr
    ELSE LET bit == CHOOSE b \in bits : TRUE
         IN  SetBits(SetBit(arr, numBits, bit), numBits, bits \ {bit})

\* every content of a short vector; of a long one those with at most two
\* bits set or at most one bit clear
ShiftStarts(n) ==
    IF n <= MaxDenseBits
    THEN {SetBits(NewArray(n), n, bits) : bits \in SUBSET (0..(n - 1))}
    ELSE {NewArray(n), SetAll(NewArray(n), n)}
         \cup {SetBits(NewArray(n), n, {i, j}) : i, j \in 0..(n - 1)}
         \cup {ClearBit(SetAll(NewArray(n), n), n, i) : i \in 0..(n - 1)}

InitShift ==
    /\ m_NumBits \in 0..MaxShiftBits
    /\ m_Array \in ShiftStarts(m_NumBits)
    /\ fault = "none"
    /\ op = "start"
    /\ arg = 0
    /\ pre = << >>
    /\ trace = TRUE
    /\ other = Vector(0, << >>)
    /\ result = NoResult

NextShift ==
    /\ op = "start"
    /\ \/ \E n \in ShiftCounts : CallShl(n)
       \/ \E n \in ShiftCounts : CallShr(n)

SpecShift == InitShift /\ [][NextShift]_vars

(* one recorded call on a pair of vectors, this one and the operand *)

\* the storages a vector of n bits made by bit_array_c(n) can come to hold:
\* every content of a short vector; of a long one those with at most two
\* bits set or at most one bit clear
Made(n) ==
    IF n = 0 THEN {NewArray(0), SetAll(NewArray(0), 0)}
    ELSE IF n <= MaxDensePairBits
    THEN {SetBits(NewArray(n), n, bits) : bits \in SUBSET (0..(n - 1))}
    ELSE {NewArray(n), SetAll(NewArray(n), n)}
         \cup {SetBits(NewArray(n), n, {i, j}) : i, j \in 0..(n - 1)}
         \cup {ClearBit(SetAll(NewArray(n), n), n, i) : i \in 0..(n - 1)}

\* the storages handed to bit_array_c(vect, n): no unit at all, or the
\* units of n bits with any bytes
BufferBytes == {0, 15, 240, UCHAR_MAX}

Buffers(n) ==
    {<< >>} \cup [1..(IF n = 0 THEN 0 ELSE BITS_TO_CHARS(n)) -> BufferBytes]

\* the operands tried with a vector: itself, its neighbours in value, and
\* made and handed-in vectors of its length, of the next and of the one before
PairLengths(n) == {n, (n + 1) % (MaxPairBits + 1), (n + MaxPairBits) % (MaxPairBits + 1)}

Neighbours(arr, n) ==
    {out.arr : out \in {o \in OperatorInc(arr, n) \cup OperatorDec(arr, n) :
                            o.fault = "none"}}

PairOperands(arr, n) ==
    {Vector(n, a) : a \in {arr} \cup Neighbours(arr, n)}
    \cup UNION {{Vector(k, a) : a \in Built(k) \cup Buffers(k)} : k \in PairLengths(n)}

InitPair ==
    /\ m_NumBits \in 0..MaxPairBits
    /\ m_Array \in Made(m_NumBits) \cup Buffers(m_NumBits)
    /\ other \in PairOperands(m_Array, m_NumBits)
    /\ fault = "none"
    /\ op = "start"
    /\ arg = 0
    /\ pre = << >>
    /\ trace = TRUE
    /\ result = NoResult

NextPair ==
    /\ op = "start"
    /\ \/ CallAndAssign(other)
       \/ CallXorAssign(other)
       \/ CallOrAssign(other)
       \/ CallAssign(other)
       \/ CallAnd(other)
       \/ CallXor(other)
       \/ CallOr(other)
       \/ CallComplement
       \/ CallEq(other)
       \/ CallNe(other)
       \/ CallLt(other)
       \/ CallLe(other)
       \/ CallGt(other)
       \/ CallGe(other)
       \/ CallNot
       \/ CallInc
       \/ CallDec
       \/ CallDump

SpecPair == InitPair /\ [][NextPair]_vars

(* ============================ properties ============================== *)

\* ceil(n / CHAR_BIT)
Units(n) == (n + CHAR_BIT - 1) \div CHAR_BIT

\* bit p of a storage sequence, as 0 or 1: bit 0 is the most significant bit
\* of unit 0
BitAt(arr, p) == (arr[(p \div CHAR_BIT) + 1] \div (2 ^ (CHAR_BIT - 1 - (p % CHAR_BIT)))) % 2

\* the unsigned value of the first n bits, bit 0 most significant
RECURSIVE Value(_, _)
Value(arr, n) == IF n = 0 THEN 0 ELSE 2 * Value(arr, n - 1) + BitAt(arr, n - 1)

AllZero(arr) == \A k \in 1..Len(arr) : arr[k] = 0

\* the positions of the final unit at or beyond n hold 0
SpareZero(arr, n) ==
    \A p \in 0..(CHAR_BIT * Len(arr) - 1) :
        (p >= n /\ p \div CHAR_BIT = Len(arr) - 1) => BitAt(arr, p) = 0

\* C1: after any sequence of mutating calls on a vector made by the
\* constructor, every spare bit of the final storage unit is zero.
C1_SpareBitsZero == SpareZero(m_Array, m_NumBits)

\* C1 for the vectors of at least one bit
C1_SpareBitsZeroFromOne == m_NumBits >= 1 => SpareZero(m_Array, m_NumBits)

\* C2: no call changes m_NumBits or the number of storage units.
C2_ShapeFixed ==
    [][m_NumBits' = m_NumBits /\ Len(m_Array') = Len(m_Array)]_vars

C2_Witness ==
    /\ m_NumBits = 10
    /\ m_Array = <<255, 192>>
    /\ Len(m_Array) = Units(m_NumBits)

\* C3: the constructor leaves exactly ceil(m_NumBits / 8) units, all zero,
\* for every length from 0 on.
C3_NewAllocatesCeil ==
    op = "new" => Len(m_Array) = Units(m_NumBits) /\ AllZero(m_Array)

\* C4: increment adds 1 modulo 2^m_NumBits to the value of the vector and
\* leaves the spare bits zero; 257 as a 16-bit vector is [0x01, 0x01].
C4_IncAddsOne ==
    op = "Inc" =>
        /\ fault = "none"
        /\ Len(m_Array) = Len(pre)
        /\ Value(m_Array, m_NumBits) = (Value(pre, m_NumBits) + 1) % (2 ^ m_NumBits)
        /\ SpareZero(m_Array, m_NumBits)
        /\ (m_NumBits = 16 /\ Value(m_Array, 16) = 257) => m_Array = <<1, 1>>

\* the all-ones value of a 12-bit vector rolls over to zero
C4_Witness ==
    op = "Inc" /\ m_NumBits = 12 /\ pre = <<255, 240>> /\ m_Array = <<0, 0>>

\* C5: decrement subtracts 1 modulo 2^m_NumBits, zero becomes the all-ones
\* value with the spare bits zero, and a decrement undoes an increment.
C5_DecSubtractsOne ==
    /\ op = "Dec" =>
        /\ fault = "none"
        /\ Len(m_Array) = Len(pre)
        /\ Value(m_Array, m_NumBits) = (Value(pre, m_NumBits) - 1) % (2 ^ m_NumBits)
        /\ SpareZero(m_Array, m_NumBits)
        /\ AllZero(pre) => \A p \in 0..(m_NumBits - 1) : BitAt(m_Array, p) = 1
    /\ \A inc \in OperatorInc(m_Array, m_NumBits) :
           OperatorDec(inc.arr, m_NumBits) = {[arr |-> m_Array, fault |-> "none"]}

\* zero as a 12-bit vector borrows through both units
C5_Witness ==
    op = "Dec" /\ m_NumBits = 12 /\ pre = <<0, 0>> /\ m_Array = <<255, 240>>

\* C6: a shift by n >= m_NumBits, whatever n, leaves the all-zero vector.
C6_ShiftOutClears ==
    (op \in {"Shl", "Shr"} /\ arg >= m_NumBits) =>
        fault = "none" /\ Len(m_Array) = Len(pre) /\ AllZero(m_Array)

\* C6 for the calls that stay inside the vector
C6_ShiftOutClearsInside ==
    (op \in {"Shl", "Shr"} /\ arg >= m_NumBits /\ fault = "none") =>
        Len(m_Array) = Len(pre) /\ AllZero(m_Array)

\* C7: after shiftLeft(n), n < m_NumBits, bit i is the old bit i + n when
\* i + n < m_NumBits and 0 otherwise.
C7_ShlLogical ==
    (op = "Shl" /\ arg < m_NumBits) =>
        /\ fault = "none"
        /\ Len(m_Array) = Len(pre)
        /\ \A i \in 0..(m_NumBits - 1) :
               BitAt(m_Array, i) =
                   IF i + arg < m_NumBits THEN BitAt(pre, i + arg) ELSE 0

\* a unit and a bit: 17 bits with bits 0 and 16 set, shifted left by 9
C7_Witness ==
    /\ op = "Shl" /\ arg = 9 /\ m_NumBits = 17
    /\ pre = <<128, 0, 128>>
    /\ m_Array = <<1, 0, 0>>

\* C8: after shiftRight(n), n < m_NumBits, bit i is the old bit i - n when
\* i >= n and 0 otherwise, and the spare bits of the final unit are zero.
C8_ShrLogical ==
    (op = "Shr" /\ arg < m_NumBits) =>
        /\ fault = "none"
        /\ Len(m_Array) = Len(pre)
        /\ \A i \in 0..(m_NumBits - 1) :
               BitAt(m_Array, i) = IF i >= arg THEN BitAt(pre, i - arg) ELSE 0
        /\ SpareZero(m_Array, m_NumBits)

\* 12 bits, all set, shifted right by 9: the bits pushed past bit 11 are cut
C8_Witness ==
    /\ op = "Shr" /\ arg = 9 /\ m_NumBits = 12
    /\ pre = <<255, 240>>
    /\ m_Array = <<0, 112>>

\* C9: SetBit(i), i < m_NumBits, on a zero vector sets the bit of weight
\* 2^(7 - i mod 8) of unit i div 8 and nothing else, so operator[] is true
\* at i alone; bits 0 and 3 of an 8-bit vector give 0x90.
C9_SetBitOnZero ==
    /\ (op = "SetBit" /\ arg < m_NumBits /\ AllZero(pre)) =>
        /\ m_Array = [k \in 1..Len(pre) |->
                         IF k = (arg \div 8) + 1 THEN 2 ^ (7 - (arg % 8)) ELSE 0]
        /\ \A j \in 0..(m_NumBits - 1) : Get(m_Array, j) = (j = arg)
    /\ (op = "SetBit" /\ arg = 3 /\ m_NumBits = 8 /\ pre = <<128>>) =>
        m_Array = <<144>>

C9_Witness ==
    /\ op = "SetBit" /\ arg = 8 /\ m_NumBits = 9
    /\ pre = <<0, 0>>
    /\ m_Array = <<0, 128>>

\* C10: SetBit and ClearBit with an index >= m_NumBits change neither the
\* storage nor the length, also when the index is a spare position.
C10_OutOfRangeNoOp ==
    [][(op' \in {"SetBit", "ClearBit"} /\ arg' >= m_NumBits) =>
           m_Array' = m_Array /\ m_NumBits' = m_NumBits /\ fault' = "none"]_vars

\* SetBit(12) on a 9-bit vector: position 12 is a spare bit of unit 1
C10_Witness ==
    /\ op = "SetBit" /\ arg = 12 /\ m_NumBits = 9
    /\ pre = <<255, 128>>
    /\ m_Array = pre

\* what C15 says of a recorded SetAll or ClearAll
FilledThenCleared ==
    /\ op = "SetAll" =>
        /\ Len(m_Array) = Len(pre)
        /\ \A i \in 0..(m_NumBits - 1) : BitAt(m_Array, i) = 1
        /\ SpareZero(m_Array, m_NumBits)
        /\ Value(m_Array, m_NumBits) = 2 ^ m_NumBits - 1
        /\ AllZero(ClearAll(m_Array)) /\ Len(ClearAll(m_Array)) = Len(pre)
    /\ op = "ClearAll" => AllZero(m_Array) /\ Len(m_Array) = Len(pre)

\* C15: SetAll, from any state, sets every logical bit and leaves every
\* spare bit of the final unit zero (the value 2^m_NumBits - 1), and a
\* ClearAll after it leaves the zero vector of the same length.
C15_SetAllThenClearAll == FilledThenCleared

\* C15 for the vectors of at least one bit
C15_SetAllThenClearAllFromOne == m_NumBits >= 1 => FilledThenCleared

\* C20: v(index) = value does what SetBit(index) does for true and what
\* ClearBit(index) does for false: bit index takes the value and every other
\* bit stays; for index >= m_NumBits nothing changes.
C20_ProxyAssignsLikeSetClear ==
    (op \in {"IndexTrue", "IndexFalse"}) =>
        /\ fault = "none"
        /\ op = "IndexTrue" => m_Array = SetBit(pre, m_NumBits, arg)
        /\ op = "IndexFalse" => m_Array = ClearBit(pre, m_NumBits, arg)
        /\ arg < m_NumBits =>
            /\ Len(m_Array) = Len(pre)
            /\ \A p \in 0..(CHAR_BIT * Len(pre) - 1) :
                   BitAt(m_Array, p) =
                       IF p = arg THEN (IF op = "IndexTrue" THEN 1 ELSE 0)
                       ELSE BitAt(pre, p)
        /\ arg >= m_NumBits => m_Array = pre

\* v(3) = false on the 8-bit vector 0x90 leaves 0x80
C20_Witness ==
    /\ op = "IndexFalse" /\ arg = 3 /\ m_NumBits = 8
    /\ pre = <<144>> /\ m_Array = <<128>>

\* v(8) = true on an 8-bit vector: the index is the length, nothing changes
C20_OutOfRange ==
    /\ op = "IndexTrue" /\ arg = 8 /\ m_NumBits = 8
    /\ pre = <<144>> /\ m_Array = <<144>>

(* ---------------------- claims on pairs of vectors -------------------- *)

\* the storage has a unit for every bit of the vector
HoldsBits(v) == CHAR_BIT * Len(v.arr) >= v.bits

InPlaceOps == {"And", "Or", "Xor"}

ValueOps == {"&", "|", "^"}

\* the vector a binary operator leaves: this one, or the one returned
Produced == IF op \in ValueOps THEN Vector(result.bits, result.arr)
            ELSE Vector(m_NumBits, m_Array)

\* and, or, xor of two bits given as 0 or 1
BitOf(o, x, y) ==
    IF o \in {"And", "&"} THEN x * y
    ELSE IF o \in {"Or", "|"} THEN (IF x + y >= 1 THEN 1 ELSE 0)
    ELSE (x + y) % 2

\* what C11 says of a recorded and, or, xor of pre and other
BitwiseByBit ==
    /\ fault = "none"
    /\ Produced.bits = m_NumBits
    /\ Len(Produced.arr) = Len(pre)
    /\ \A i \in 0..(m_NumBits - 1) :
           BitAt(Produced.arr, i) = BitOf(op, BitAt(pre, i), BitAt(other.arr, i))
    /\ other.arr = pre =>
           IF op \in {"Xor", "^"} THEN AllZero(Produced.arr) ELSE Produced.arr = pre
    /\ (m_NumBits = 8 /\ pre = <<240>> /\ other.arr = <<15>>) =>
           Produced.arr = (IF op \in {"And", "&"} THEN <<0>> ELSE <<UCHAR_MAX>>)

\* C11: for vectors a and b of equal length, a &= b, a |= b, a ^= b and
\* a & b, a | b, a ^ b give a vector of that length whose bit i is the and,
\* or, xor of a[i] and b[i]; so v & v = v, v | v = v, v ^ v = 0, and 0xF0 with
\* 0x0F gives or 0xFF, and 0x00, xor 0xFF.
C11_BitwiseByBit ==
    (op \in InPlaceOps \cup ValueOps /\ m_NumBits = other.bits
        /\ HoldsBits(Vector(m_NumBits, pre)) /\ HoldsBits(other)) => BitwiseByBit

\* C11 for the pairs where the operand has a unit for each unit of this vector
C11_BitwiseByBitSameUnits ==
    (op \in InPlaceOps \cup ValueOps /\ m_NumBits = other.bits
        /\ HoldsBits(Vector(m_NumBits, pre)) /\ HoldsBits(other)
        /\ Len(other.arr) >= Len(pre)) => BitwiseByBit

\* the pairs C11 is about are tried: 10 bits, 0x80 0x40 or-ed into zero
C11_PairTried ==
    /\ op = "Or" /\ m_NumBits = 10 /\ other = Vector(10, <<128, 64>>)
    /\ pre = <<0, 0>> /\ m_Array = <<128, 64>>

\* C12: when the operand's length differs from this vector's, &=, |= and ^=
\* change nothing: this vector keeps its storage and length, and the operand
\* is as it was.
C12_MismatchNoOp ==
    [][(op' \in InPlaceOps /\ m_NumBits # other.bits) =>
           /\ m_Array' = m_Array
           /\ m_NumBits' = m_NumBits
           /\ other' = other
           /\ fault' = "none"]_vars

\* 9 bits, all set, and-ed with the zero vector of 10 bits: both have two units
C12_Witness ==
    /\ op = "And" /\ m_NumBits = 9 /\ other = Vector(10, <<0, 0>>)
    /\ pre = <<255, 128>> /\ m_Array = pre

\* C13: a & b, a | b, a ^ b and ~a leave a and b as they were, storage and
\* length, whether the lengths are equal or not.
C13_ValueOpsKeepOperands ==
    [][(op' \in ValueOps \cup {"~"}) =>
           /\ m_Array' = m_Array
           /\ m_NumBits' = m_NumBits
           /\ other' = other]_vars

\* ~a of a 10-bit vector with bits 0 and 9 set: a is kept, the result differs
C13_Witness ==
    /\ op = "~" /\ m_NumBits = 10
    /\ pre = <<128, 64>> /\ m_Array = pre
    /\ result.arr = <<127, 128>>

\* what C14 says of a recorded Not
NotRestores ==
    /\ \A i \in 0..(m_NumBits - 1) : BitAt(m_Array, i) = 1 - BitAt(pre, i)
    /\ SpareZero(m_Array, m_NumBits)
    /\ Not(m_Array, m_NumBits) = pre

\* C14: Not complements every logical bit and leaves the spare bits of the
\* final unit zero, and a second Not gives back exactly the storage the
\* first one started from, for any vector.
C14_NotNotRestores ==
    (op = "Not" /\ HoldsBits(Vector(m_NumBits, pre))) => NotRestores

\* C14 for the vectors whose storage has ceil(m_NumBits / 8) units and zero
\* spare bits
C14_NotNotRestoresMasked ==
    (op = "Not" /\ Len(pre) = Units(m_NumBits) /\ SpareZero(pre, m_NumBits)) =>
        NotRestores

\* this vector and the operand have the same units, one by one
SameStorage ==
    /\ Len(m_Array) = Len(other.arr)
    /\ \A k \in 1..Len(m_Array) : m_Array[k] = other.arr[k]

\* C16: a == b exactly when the lengths are equal and the storages are equal
\* unit by unit, so never when the lengths differ; a != b is the negation of
\* a == b for every pair, of equal length or not.
C16_EqualsByLengthAndStorage ==
    /\ op = "==" => result.flag = (m_NumBits = other.bits /\ SameStorage)
    /\ op = "!=" =>
        /\ result.flag = ~(m_NumBits = other.bits /\ SameStorage)
        /\ result.flag = ~OperatorEq(m_Array, m_NumBits, other)
    /\ (op = "==" /\ m_NumBits # other.bits) => ~result.flag

\* the zero vectors of 9 and of 10 bits: the same storage, not equal
C16_Witness ==
    /\ op = "!=" /\ m_NumBits = 9 /\ other = Vector(10, <<0, 0>>)
    /\ m_Array = <<0, 0>>
    /\ result.flag

\* a is before b in the lexicographic order of the storage sequences: the
\* first unit that differs decides, and a proper prefix comes first
LexLess(a, b) ==
    \/ \E k \in 1..Len(a) :
           /\ k <= Len(b)
           /\ a[k] < b[k]
           /\ \A j \in 1..(k - 1) : a[j] = b[j]
    \/ Len(a) < Len(b) /\ \A j \in 1..Len(a) : a[j] = b[j]

\* v has ceil(v.bits / 8) units and zero spare bits
WellFormed(v) == Len(v.arr) = Units(v.bits) /\ SpareZero(v.arr, v.bits)

RelationalOps == {"<", "<=", ">", ">="}

\* C17: for equal lengths <, <=, >, >= are the lexicographic comparison of
\* the storages, which for vectors with ceil(m_NumBits / 8) units and zero
\* spare bits is the order of their values; for different lengths all four
\* are false, whichever vector is on the left.
C17_OrderIsLexicographic ==
    LET a == m_Array
        b == other.arr
        va == Value(a, m_NumBits)
        vb == Value(b, m_NumBits)
    IN  /\ (op \in RelationalOps /\ m_NumBits # other.bits) => ~result.flag
        /\ (op \in RelationalOps /\ m_NumBits = other.bits) =>
            /\ op = "<" => result.flag = LexLess(a, b)
            /\ op = "<=" => result.flag = (LexLess(a, b) \/ a = b)
            /\ op = ">" => result.flag = LexLess(b, a)
            /\ op = ">=" => result.flag = (LexLess(b, a) \/ a = b)
            /\ (WellFormed(Vector(m_NumBits, a)) /\ WellFormed(other)) =>
                /\ op = "<" => result.flag = (va < vb)
                /\ op = "<=" => result.flag = (va <= vb)
                /\ op = ">" => result.flag = (va > vb)
                /\ op = ">=" => result.flag = (va >= vb)

\* 10 bits: 0x00 0xC0 is less than 0x80 0x00, decided by the first unit
C17_Witness ==
    /\ op = "<" /\ m_NumBits = 10 /\ other = Vector(10, <<128, 0>>)
    /\ m_Array = <<0, 192>>
    /\ result.flag

\* C18: dst = src copies the storage of src into dst, which then equals src,
\* exactly when the lengths are equal and neither has zero storage units;
\* otherwise dst keeps its storage.  The length of dst and src itself are
\* unchanged either way.
C18_AssignCopiesOrNothing ==
    [][op' = "Assign" =>
           /\ m_NumBits' = m_NumBits
           /\ other' = other
           /\ fault' = "none"
           /\ IF m_NumBits = other.bits /\ Len(m_Array) # 0 /\ Len(other.arr) # 0
              THEN m_Array' = other.arr /\ OperatorEq(m_Array', m_NumBits', other')
              ELSE m_Array' = m_Array]_vars

\* a 9-bit vector without storage is not assigned the 9-bit vector 0xFF 0x80
C18_Witness ==
    /\ op = "Assign" /\ m_NumBits = 9 /\ other = Vector(9, <<255, 128>>)
    /\ pre = << >> /\ m_Array = << >>

\* two 10-bit vectors: the storage of the source is copied
C18_Copied ==
    /\ op = "Assign" /\ m_NumBits = 10 /\ other = Vector(10, <<255, 192>>)
    /\ pre = <<0, 0>> /\ m_Array = <<255, 192>>

\* C19: ++ and -- on a vector without storage units change nothing and
\* access no unit.
C19_EmptyIncDecNoOp ==
    [][(op' \in {"Inc", "Dec"} /\ Len(m_Array) = 0) =>
           /\ m_Array' = m_Array
           /\ m_NumBits' = m_NumBits
           /\ fault' = "none"]_vars

\* ++ on the vector made from an empty buffer
C19_Witness ==
    /\ op = "Inc" /\ m_NumBits = 0
    /\ pre = << >> /\ m_Array = << >>
    /\ fault = "none"

(* ------------------------------- Dump --------------------------------- *)

\* the two uppercase hexadecimal digits of a unit
HexPair(v) == <<HexDigits[(v \div 16) + 1], HexDigits[(v % 16) + 1]>>

\* one pair per unit in unit order, one space between pairs, none before
\* the first or after the last
Rendered(arr) ==
    [k \in 1..(3 * Len(arr) - 1) |->
        IF k % 3 = 0 THEN " " ELSE HexPair(arr[(k + 2) \div 3])[k % 3]]

\* what C21 says of a recorded Dump
DumpRenders ==
    /\ fault = "none"
    /\ m_Array = pre
    /\ result.out = Rendered(pre)
    /\ Len(result.out) = (IF Len(pre) = 0 THEN 0 ELSE 3 * Len(pre) - 1)
    /\ (m_NumBits = 8 /\ pre = <<144>>) => result.out = <<"9", "0">>

\* C21: Dump writes the storage of any vector, unit by unit, as two-digit
\* uppercase hexadecimal groups with one space between them and none at
\* either end, one group per storage unit, and leaves the vector as it was;
\* the 8-bit vector with bits 0 and 3 set dumps as "90".
C21_DumpRendersStorage == op = "Dump" => DumpRenders

\* C21 for the vectors with at least one storage unit
C21_DumpRendersStorageWithUnits == (op = "Dump" /\ Len(pre) >= 1) => DumpRenders

\* a two-unit dump is reached: 10 bits, all set, written as FF C0
C21_TwoUnitsDumped ==
    /\ op = "Dump" /\ m_NumBits = 10 /\ pre = <<255, 192>>
    /\ result.out = <<"F", "F", " ", "C", "0">>

\* the recorded value operator with its operands exchanged: other op this
Exchanged ==
    LET left == Vector(m_NumBits, pre)
    IN  IF op = "&" THEN OperatorAnd(other.arr, other.bits, left)
        ELSE IF op = "|" THEN OperatorOr(other.arr, other.bits, left)
        ELSE OperatorXor(other.arr, other.bits, left)

\* C23: for a and b of different lengths a & b, a | b and a ^ b return a
\* vector with the length and the exact storage of a, never those of b; with
\* the operands exchanged the result is b, so the order matters.
C23_MismatchReturnsLeft ==
    (op \in ValueOps /\ m_NumBits # other.bits) =>
        /\ fault = "none"
        /\ result.bits = m_NumBits
        /\ result.arr = pre
        /\ \A out \in Exchanged : out.fault = "none" /\ out.arr = other.arr

\* the zero vector of 9 bits or-ed with the all-ones vector of 10 bits
C23_Witness ==
    /\ op = "|" /\ m_NumBits = 9 /\ other = Vector(10, <<255, 192>>)
    /\ pre = <<0, 0>>
    /\ result.bits = 9 /\ result.arr = <<0, 0>>

(* --------------------------- memory safety ---------------------------- *)

\* C22: on a vector made by bit_array_c(n), n >= 1, no call of SetBit,
\* ClearBit, SetAll, ClearAll, Not, ++, --, <<= or >>=, for any index and any
\* shift count, reads or writes a unit outside the storage.
C22_MutatorsStayInside == m_NumBits >= 1 => fault = "none"

\* the shifts that leave the storage are those of more whole units than the
\* storage has, with a remainder below m_NumBits
C22_ShiftsLeaveStorageWhen ==
    (op \in {"Shl", "Shr"} /\ m_NumBits >= 1) =>
        (fault # "none") =
            (arg % CHAR_BIT < m_NumBits /\ arg \div CHAR_BIT > Len(pre))

====
